---------------------------- MODULE Spec2Model ----------------------------
(***************************************************************************)
(* Model of the task lifecycle of the LLM deployment API (src/app.py):     *)
(* the /api/deploy handler, the registry processed_tasks, the background   *)
(* pipeline process_task_background and the delivery client                *)
(* submit_to_evaluation; the publisher create_github_repo and the         *)
(* generator's clean-up of the model's response are modelled on their own. *)
(*                                                                         *)
(* The Flask server handles each request on a thread of its own and every  *)
(* accepted task runs on a daemon thread, so the handler and the pipeline  *)
(* are split into steps at each access to the shared dictionary            *)
(* processed_tasks and at each external call; everything between two such  *)
(* points is local to the thread and is part of one step (the pipeline's   *)
(* reads of its own argument task_data belong to its first step).          *)
(***************************************************************************)
EXTENDS Integers, Sequences, FiniteSets, TLC

VARIABLES
    processed_tasks,    \* app.py:30  the registry: task id -> entry
    req,                \* one record per submission handled by deploy()
    pipe,               \* one record per thread running process_task_background
    client,             \* one call of submit_to_evaluation run on its own
    github,             \* the repository create_github_repo works on
    publish,            \* calls of create_github_repo run on their own
    llm                 \* a response of the model and the code made of it

vars == <<processed_tasks, req, pipe, client, github, publish, llm>>

---------------------------------------------------------------------------
(* Bounds of the model *)

\* Number of POST /api/deploy submissions received over the run.
MaxSubmits == 2

\* Number of calls of create_github_repo made one after the other for the
\* same repository name.
MaxCalls == 2

\* Length of the model's response text, in tokens.
MaxLen == 4

---------------------------------------------------------------------------
(* Values *)

\* Python's None: the value data.get() gives for a missing field.
None == "None"

\* The configured shared secret (os.getenv('SECRET')); the value is the one
\* the repository's own client sends.
SECRET == "manifest-2025"

Secrets == {SECRET, "wrong"}

TaskIds == {"t1", "t2"}

TaskOrder(t) == IF t = "t1" THEN 1 ELSE 2

Subs == 1..MaxSubmits

\* Each submission carries a nonce of its own.
Nonce(r) == IF r = 1 THEN "n1" ELSE IF r = 2 THEN "n2" ELSE "n3"

\* The JSON object a client sends (src/test_request.py:6-16).  email, round
\* and attachments are read with defaults everywhere and decide nothing.
FullPayload(r, s, t) ==
    [secret |-> s, task |-> t, nonce |-> Nonce(r), brief |-> "brief",
     checks |-> "checks", evaluation_url |-> "cb"]

Drop(d, f) == [k \in DOMAIN d \ {f} |-> d[k]]

\* The fields a submitted payload may lack: the secret, the task id, and one
\* of the fields the pipeline reads after the task id (brief, checks,
\* evaluation_url and nonce are read the same way, one after the other).
Droppable == {"secret", "task", "brief"}

\* Payloads naming a task of tasks, some lacking one field.
Payloads(r, tasks) ==
    LET full == {FullPayload(r, s, t) : s \in Secrets, t \in tasks}
    IN  full \cup {Drop(d, f) : d \in full, f \in Droppable}

\* dict.get(key): None when the key is missing.
Get(d, k) == IF k \in DOMAIN d THEN d[k] ELSE None

NoData == [k \in {} |-> None]

---------------------------------------------------------------------------
(* verify_secret *)

\* Variant: a missing secret is let through.
verify_secret_MissingPasses(provided_secret) ==
    provided_secret = SECRET \/ provided_secret = None

verify_secret(provided_secret) == provided_secret = SECRET

---------------------------------------------------------------------------
(* Responses of deploy() *)

NoResp ==
    [code |-> 0, status |-> None, message |-> None, error |-> None,
     task |-> None, repo_url |-> None, pages_url |-> None]

InvalidSecretResp == [NoResp EXCEPT !.code = 401, !.error = "Invalid secret"]

ServerErrorResp == [NoResp EXCEPT !.code = 500, !.error = "exception"]

CompletedResp(status) ==
    [NoResp EXCEPT !.code = 200, !.status = "success",
                   !.message = "Task already completed",
                   !.repo_url = status.repo_url,
                   !.pages_url = status.pages_url]

ProcessingResp ==
    [NoResp EXCEPT !.code = 200, !.status = "processing",
                   !.message = "Task is being processed"]

AcceptedResp(task_id) ==
    [NoResp EXCEPT !.code = 200, !.status = "success",
                   !.message = "Task accepted and is being processed",
                   !.task = task_id]

---------------------------------------------------------------------------
(* Pipeline values *)

NoRepo == [repo_url |-> None, pages_url |-> None, commit_sha |-> None]

Shas == {"sha1"}

\* What create_github_repo returns for repo_name (app.py:167-171).
RepoUrl(repo_name) ==
    CASE repo_name = "t1" -> "https://github.com/user/t1"
      [] repo_name = "t2" -> "https://github.com/user/t2"
      [] OTHER            -> "https://github.com/user/None"

PagesUrl(repo_name) ==
    CASE repo_name = "t1" -> "https://user.github.io/t1/"
      [] repo_name = "t2" -> "https://user.github.io/t2/"
      [] OTHER            -> "https://user.github.io/None/"

RepoData(repo_name, sha) ==
    [repo_url |-> RepoUrl(repo_name),
     pages_url |-> PagesUrl(repo_name),
     commit_sha |-> sha]

\* The JSON body submit_to_evaluation posts (app.py:181-187).
EvalPayload(task_id, nonce, repo_data) ==
    [task |-> task_id, nonce |-> nonce, repo_url |-> repo_data.repo_url,
     pages_url |-> repo_data.pages_url, commit_sha |-> repo_data.commit_sha]

NoPayload == EvalPayload(None, None, NoRepo)

NoDelivery == [attempt |-> 0, posts |-> 0, sleeps |-> <<>>, got200 |-> FALSE, ret |-> None]

\* A call of submit_to_evaluation with the outcome of each POST it made.
NoClient == [dl |-> NoDelivery, outcomes |-> <<>>]

NoPipe ==
    [pc |-> "none", task_data |-> NoData, task_id |-> None, e |-> None,
     gen |-> 0, pub |-> 0,
     repo_data |-> NoRepo, dl |-> NoDelivery, sent |-> NoPayload,
     wrote |-> None]

NoReq == [pc |-> "new", data |-> NoData, found |-> None, resp |-> NoResp]

\* The parts modelled on their own, at rest.
\* No repository of the task's name on GitHub.
NoGithub ==
    [exists |-> FALSE, files |-> NoData, commits |-> 0, created |-> 0,
     pages |-> FALSE]

\* create_github_repo not called yet.
NoPublish ==
    [call |-> 0, pc |-> "idle", i |-> 0, html_code |-> None,
     fault |-> FALSE, write_raised |-> FALSE, result |-> NoRepo,
     prev_returned |-> FALSE, prev |-> NoRepo]

NoLlm == [text |-> <<>>, code |-> <<>>, done |-> FALSE]

Init ==
    /\ processed_tasks = [k \in {} |-> None]
    /\ req = [r \in Subs |-> NoReq]
    /\ pipe = [r \in Subs |-> NoPipe]
    /\ client = NoClient
    /\ github = NoGithub
    /\ publish = NoPublish
    /\ llm = NoLlm


---------------------------------------------------------------------------
(* The registry processed_tasks *)

\* processed_tasks[k] = v
Put(pt, k, v) == [x \in DOMAIN pt \cup {k} |-> IF x = k THEN v ELSE pt[x]]

ProcessingEntry == [status |-> "processing"]

\* Variant: the two URLs are stored the wrong way round.
CompletedEntry_UrlsSwapped(repo_data) ==
    [status |-> "completed", repo_url |-> repo_data.pages_url,
     pages_url |-> repo_data.repo_url]

CompletedEntry(repo_data) ==
    [status |-> "completed", repo_url |-> repo_data.repo_url,
     pages_url |-> repo_data.pages_url]

FailedEntry(e) == [status |-> "failed", error |-> e]

\* What the handler finds for task_id: 'task_id in processed_tasks' and the
\* read of processed_tasks[task_id]['status'].  Entries are never deleted, so
\* the membership test and the read that follows it see what one read sees.
Lookup(pt, task_id) ==
    IF task_id \in DOMAIN pt THEN pt[task_id].status ELSE "absent"

\* Variant: the 'completed' branch is missing, a completed task falls
\* through to the write.
Dispatch_NoCompletedBranch(found) ==
    CASE found = "processing" -> "processing"
      [] OTHER                -> "mark"

\* Variant: the 'processing' branch is missing, a task in flight falls
\* through to the write.
Dispatch_NoProcessingBranch(found) ==
    CASE found = "completed"  -> "completed"
      [] OTHER                -> "mark"

\* Variant: a 'failed' task is answered like one in flight.
Dispatch_FailedAsProcessing(found) ==
    CASE found = "completed"  -> "completed"
      [] found = "processing" -> "processing"
      [] found = "failed"     -> "processing"
      [] OTHER                -> "mark"

\* The branch deploy() takes on what it found: only 'completed' and
\* 'processing' return early; everything else falls through to the write.
Dispatch(found) ==
    CASE found = "completed"  -> "completed"
      [] found = "processing" -> "processing"
      [] OTHER                -> "mark"

---------------------------------------------------------------------------
(* deploy(): POST /api/deploy *)

\* Submissions are numbered in their order of arrival.
Arrives(r) ==
    /\ req[r].pc = "new"
    /\ \A q \in Subs : q < r => req[q].pc # "new"

TaskOf(r) == Get(req[r].data, "task")

\* The handler returns resp.  data and found stay as the record of what was
\* submitted and of what the submission saw in the registry.
Return(h, resp) == [h EXCEPT !.pc = "done", !.resp = resp]

\* A body that is not a JSON object: data.get raises, the handler's except
\* answers 500.
DeployBadBody(r) ==
    /\ Arrives(r)
    /\ req' = [req EXCEPT ![r] = Return(@, ServerErrorResp)]
    /\ UNCHANGED <<processed_tasks, pipe, client, github, publish, llm>>

\* Task ids are opaque strings: the submissions name them in the order of
\* first use, so a submission carries a task id already submitted or the
\* next one not yet seen.
SubmittedTasks == {Get(req[q].data, "task") : q \in Subs} \cap TaskIds

NextTasks ==
    LET fresh == TaskIds \ SubmittedTasks
    IN  IF fresh = {} THEN SubmittedTasks
        ELSE SubmittedTasks \cup
                {CHOOSE t \in fresh : \A u \in fresh : TaskOrder(t) <= TaskOrder(u)}

\* get_json, the field reads and the secret check.
DeploySubmit(r) ==
    /\ Arrives(r)
    /\ \E d \in Payloads(r, NextTasks) :
          IF verify_secret(Get(d, "secret"))
          THEN req' = [req EXCEPT ![r].pc = "check", ![r].data = d]
          ELSE req' = [req EXCEPT ![r] = Return([@ EXCEPT !.data = d],
                                                InvalidSecretResp)]
    /\ UNCHANGED <<processed_tasks, pipe, client, github, publish, llm>>

\* 'if task_id in processed_tasks' and the two early returns.
DeployCheck(r) ==
    /\ req[r].pc = "check"
    /\ LET task_id == TaskOf(r)
           found   == Lookup(processed_tasks, task_id)
           branch  == Dispatch(found)
           seen    == [req[r] EXCEPT !.found = found]
       IN  req' = [req EXCEPT ![r] =
                CASE branch = "completed"  ->
                        Return(seen, CompletedResp(processed_tasks[task_id]))
                  [] branch = "processing" -> Return(seen, ProcessingResp)
                  [] OTHER                 -> [seen EXCEPT !.pc = "mark"]]
    /\ UNCHANGED <<processed_tasks, pipe, client, github, publish, llm>>

\* Variant: the thread is started without the write of 'processing'.
DeployMark_NoWrite(r) ==
    /\ req[r].pc = "mark"
    /\ req' = [req EXCEPT ![r].pc = "start"]
    /\ UNCHANGED <<processed_tasks, pipe, client, github, publish, llm>>

\* processed_tasks[task_id] = {'status': 'processing'}
DeployMark(r) ==
    /\ req[r].pc = "mark"
    /\ processed_tasks' = Put(processed_tasks, TaskOf(r), ProcessingEntry)
    /\ req' = [req EXCEPT ![r].pc = "start"]
    /\ UNCHANGED <<pipe, client, github, publish, llm>>

\* thread.start(): the pipeline of this submission begins.
DeployStart(r) ==
    /\ req[r].pc = "start"
    /\ pipe' = [pipe EXCEPT ![r].pc = "extract", ![r].task_data = req[r].data]
    /\ req' = [req EXCEPT ![r].pc = "respond"]
    /\ UNCHANGED <<processed_tasks, client, github, publish, llm>>

\* The immediate response.
DeployRespond(r) ==
    /\ req[r].pc = "respond"
    /\ req' = [req EXCEPT ![r] = Return(@, AcceptedResp(TaskOf(r)))]
    /\ UNCHANGED <<processed_tasks, pipe, client, github, publish, llm>>

---------------------------------------------------------------------------
(* submit_to_evaluation: the delivery client *)

\* Variant: one attempt fewer.
MaxAttempts_OneFewer == 4 - 1

\* for attempt in range(4)
MaxAttempts == 4

\* if attempt == 3:  # Last attempt
LastAttempt == 3

\* wait_time = 2 ** attempt
WaitTime(attempt) == 2 ^ attempt

\* if attempt > 0: time.sleep(wait_time)
SleepsBefore(attempt) == attempt > 0

\* What one POST can end in: status 200, another status, or requests.post
\* raising (a transport error, the 30 s timeout).
Outcomes == {"200", "404", "500", "error"}

\* Variant: the return on status 200 is missing, the loop goes on.
SubmitAttempt_NoReturnOn200(dl, outcome) ==
    LET attempt   == dl.attempt
        after     == [dl EXCEPT
                        !.sleeps = IF SleepsBefore(attempt)
                                   THEN Append(dl.sleeps, WaitTime(attempt))
                                   ELSE dl.sleeps,
                        !.posts = dl.posts + 1,
                        !.got200 = dl.got200 \/ outcome = "200"]
    IN  IF attempt + 1 >= MaxAttempts
        THEN [after EXCEPT !.ret = "False"]
        ELSE [after EXCEPT !.attempt = attempt + 1]

\* One iteration of the retry loop on the client's state dl, the POST ending
\* in outcome.  ret is the value returned once the client has returned.
SubmitAttempt(dl, outcome) ==
    LET attempt   == dl.attempt
        after     == [dl EXCEPT
                        !.sleeps = IF SleepsBefore(attempt)
                                   THEN Append(dl.sleeps, WaitTime(attempt))
                                   ELSE dl.sleeps,
                        !.posts = dl.posts + 1]
        exhausted == attempt + 1 >= MaxAttempts
        again     == IF exhausted
                     THEN [after EXCEPT !.ret = "False"]
                     ELSE [after EXCEPT !.attempt = attempt + 1]
    IN  CASE outcome = "200"   -> [after EXCEPT !.got200 = TRUE, !.ret = "True"]
          [] outcome = "error" -> IF attempt = LastAttempt
                                  THEN [after EXCEPT !.ret = "False"]
                                  ELSE again
          [] OTHER             -> again

---------------------------------------------------------------------------
(* process_task_background: the pipeline thread of submission p *)

\* The fields read with task_data[...], in the order they are read.
ExtractOrder == <<"task", "brief", "checks", "evaluation_url", "nonce">>

\* The first field whose read raises KeyError, None when all are present.
FirstMissing(d) ==
    LET missing == {i \in 1..Len(ExtractOrder) : ExtractOrder[i] \notin DOMAIN d}
    IN  IF missing = {} THEN None
        ELSE ExtractOrder[CHOOSE i \in missing : \A j \in missing : i <= j]

\* Where an exception caught by 'except Exception as e' leads: the handler
\* first formats task_id into a message, and task_id is unbound when it was
\* task_data['task'] that raised, so the handler itself raises and the
\* thread ends without writing the registry.
Handler(missing) == IF missing = "task" THEN "crashed" ELSE "except"

\* The reads of task_data at the top of the try block, one of them raising
\* KeyError.
PipeExtractRaises(p) ==
    /\ pipe[p].pc = "extract"
    /\ LET d       == pipe[p].task_data
           missing == FirstMissing(d)
       IN  /\ missing # None
           /\ pipe' = [pipe EXCEPT
                    ![p].task_id = Get(d, "task"),
                    ![p].e = missing,
                    ![p].pc = Handler(missing)]
    /\ UNCHANGED <<processed_tasks, req, client, github, publish, llm>>

\* The reads of task_data succeed and the generator is called.
Extracted(p) ==
    /\ pipe[p].pc = "extract"
    /\ FirstMissing(pipe[p].task_data) = None

\* generate_code_with_llm returns.
PipeGenerateOk(p) ==
    /\ Extracted(p)
    /\ pipe' = [pipe EXCEPT ![p].task_id = pipe[p].task_data.task,
                            ![p].gen = @ + 1, ![p].pc = "publish"]
    /\ UNCHANGED <<processed_tasks, req, client, github, publish, llm>>

\* Variant: a generation failure is replaced by a fallback document and the
\* pipeline goes on to publish it.
PipeGenerateRaises_Fallback(p) ==
    /\ Extracted(p)
    /\ pipe' = [pipe EXCEPT ![p].task_id = pipe[p].task_data.task,
                            ![p].gen = @ + 1, ![p].e = "generation failed",
                            ![p].pc = "publish"]
    /\ UNCHANGED <<processed_tasks, req, client, github, publish, llm>>

\* generate_code_with_llm raises.
PipeGenerateRaises(p) ==
    /\ Extracted(p)
    /\ pipe' = [pipe EXCEPT ![p].task_id = pipe[p].task_data.task,
                            ![p].gen = @ + 1, ![p].e = "generation failed",
                            ![p].pc = "except"]
    /\ UNCHANGED <<processed_tasks, req, client, github, publish, llm>>

\* create_github_repo returns repo_data.
PipePublishOk(p) ==
    /\ pipe[p].pc = "publish"
    /\ \E sha \in Shas :
          pipe' = [pipe EXCEPT ![p].pub = @ + 1,
                               ![p].repo_data = RepoData(pipe[p].task_id, sha),
                               ![p].pc = "deliver"]
    /\ UNCHANGED <<processed_tasks, req, client, github, publish, llm>>

\* create_github_repo raises 'Repository creation failed: ...'.
PipePublishRaises(p) ==
    /\ pipe[p].pc = "publish"
    /\ pipe' = [pipe EXCEPT ![p].pub = @ + 1,
                            ![p].e = "Repository creation failed",
                            ![p].pc = "except"]
    /\ UNCHANGED <<processed_tasks, req, client, github, publish, llm>>

\* One attempt of submit_to_evaluation; the pipeline goes on once it returns.
PipeDeliver(p) ==
    /\ pipe[p].pc = "deliver"
    /\ \E outcome \in Outcomes :
          LET dl == SubmitAttempt(pipe[p].dl, outcome)
          IN  pipe' = [pipe EXCEPT
                    ![p].dl = dl,
                    ![p].sent = EvalPayload(pipe[p].task_id,
                                            pipe[p].task_data.nonce,
                                            pipe[p].repo_data),
                    ![p].pc = IF dl.ret = None THEN "deliver" ELSE "mark"]
    /\ UNCHANGED <<processed_tasks, req, client, github, publish, llm>>

\* Variant: a delivery that failed marks the task 'failed'.
PipeMarkCompleted_DeliveryDecides(p) ==
    /\ pipe[p].pc = "mark"
    /\ LET ok == pipe[p].dl.ret = "True"
       IN  /\ processed_tasks' =
                 Put(processed_tasks, pipe[p].task_id,
                     IF ok THEN CompletedEntry(pipe[p].repo_data)
                           ELSE FailedEntry("delivery failed"))
           /\ pipe' = [pipe EXCEPT ![p].pc = "done",
                                   ![p].wrote = IF ok THEN "completed" ELSE "failed"]
    /\ UNCHANGED <<req, client, github, publish, llm>>

\* processed_tasks[task_id] = {'status': 'completed', ...}
PipeMarkCompleted(p) ==
    /\ pipe[p].pc = "mark"
    /\ processed_tasks' =
          Put(processed_tasks, pipe[p].task_id, CompletedEntry(pipe[p].repo_data))
    /\ pipe' = [pipe EXCEPT ![p].pc = "done", ![p].wrote = "completed"]
    /\ UNCHANGED <<req, client, github, publish, llm>>

\* Variant: task_id is a variable shared by the threads, holding the task
\* of the submission received last.
PipeMarkFailed_SharedTaskId(p) ==
    /\ pipe[p].pc = "except"
    /\ LET last == CHOOSE r \in Subs :
                      /\ req[r].pc # "new"
                      /\ \A q \in Subs : req[q].pc # "new" => q <= r
       IN  processed_tasks' =
              Put(processed_tasks, TaskOf(last), FailedEntry(pipe[p].e))
    /\ pipe' = [pipe EXCEPT ![p].pc = "done", ![p].wrote = "failed"]
    /\ UNCHANGED <<req, client, github, publish, llm>>

\* except Exception as e: processed_tasks[task_id] = {'status': 'failed', ...}
PipeMarkFailed(p) ==
    /\ pipe[p].pc = "except"
    /\ processed_tasks' =
          Put(processed_tasks, pipe[p].task_id, FailedEntry(pipe[p].e))
    /\ pipe' = [pipe EXCEPT ![p].pc = "done", ![p].wrote = "failed"]
    /\ UNCHANGED <<req, client, github, publish, llm>>

---------------------------------------------------------------------------
(* The system *)

Next ==
    \E r \in Subs :
        \/ DeployBadBody(r)
        \/ DeploySubmit(r)
        \/ DeployCheck(r)
        \/ DeployMark(r)
        \/ DeployStart(r)
        \/ DeployRespond(r)
        \/ PipeExtractRaises(r)
        \/ PipeGenerateOk(r)
        \/ PipeGenerateRaises(r)
        \/ PipePublishOk(r)
        \/ PipePublishRaises(r)
        \/ PipeDeliver(r)
        \/ PipeMarkCompleted(r)
        \/ PipeMarkFailed(r)

Spec == Init /\ [][Next]_vars

---------------------------------------------------------------------------
(* The delivery client on its own: one call of submit_to_evaluation against
   an endpoint that answers each POST in any of the ways of Outcomes. *)

ClientAttempt ==
    /\ client.dl.ret = None
    /\ \E outcome \in Outcomes :
          client' = [dl |-> SubmitAttempt(client.dl, outcome),
                     outcomes |-> Append(client.outcomes, outcome)]
    /\ UNCHANGED <<processed_tasks, req, pipe, github, publish, llm>>

NextDelivery == ClientAttempt

SpecDelivery == Init /\ [][NextDelivery]_vars


---------------------------------------------------------------------------
(* create_github_repo: the publisher, on its own.

   Calls of create_github_repo(repo_name, html_code, brief) are made one
   after the other with the same repo_name and brief and a source text of
   their own, against a GitHub account in which the repository is absent or
   exists with any of the three files.  Each step is one call of the GitHub
   API; a call raises when GitHub refuses it (no such repository, no such
   file, name or file already there, no commit) and may raise for a reason
   of its own (network, rate limit, permissions), which is the choice of
   fault. *)

RepoName == "t1"

Files == <<"index.html", "README.md", "LICENSE">>

FileSet == {Files[i] : i \in 1..Len(Files)}

\* html_code of the call-th call.
HtmlCode(call) ==
    CASE call = 1 -> "html1"
      [] call = 2 -> "html2"
      [] OTHER    -> "html3"

\* What a call writes to path: html_code, readme_content (app.py:119-135,
\* made of repo_name and brief) and license_content (app.py:96-116).
Content(path, call) ==
    CASE path = "index.html" -> HtmlCode(call)
      [] path = "README.md"  -> "readme"
      [] OTHER               -> "MIT"

\* The repository after a commit that sets path to content.
Commit(gh, path, content) ==
    [gh EXCEPT !.files = Put(gh.files, path, content),
               !.commits = gh.commits + 1]

\* The accounts a first call may find: no repository, or a repository
\* holding some of the three files with content of an earlier time, one
\* commit for each.
InitialRepos ==
    {NoGithub} \cup
    {[NoGithub EXCEPT !.exists = TRUE,
                      !.files = [f \in S |-> "old"],
                      !.commits = Cardinality(S)] : S \in SUBSET FileSet}

InitPublish ==
    /\ processed_tasks = [k \in {} |-> None]
    /\ req = [r \in Subs |-> NoReq]
    /\ pipe = [r \in Subs |-> NoPipe]
    /\ client = NoClient
    /\ github \in InitialRepos
    /\ publish = NoPublish
    /\ llm = NoLlm

PubFrame == UNCHANGED <<processed_tasks, req, pipe, client, llm>>

\* The except clause of app.py:173-175: the call raises.
PubRaise == [publish EXCEPT !.pc = "raised", !.i = 0]

\* create_github_repo(RepoName, HtmlCode(call), brief) is called.
PubCall ==
    /\ publish.pc \in {"idle", "returned", "raised"}
    /\ publish.call < MaxCalls
    /\ publish' = [publish EXCEPT
                      !.call = publish.call + 1,
                      !.pc = "get_user",
                      !.html_code = HtmlCode(publish.call + 1),
                      !.fault = FALSE,
                      !.write_raised = FALSE,
                      !.result = NoRepo,
                      !.prev_returned = (publish.pc = "returned"),
                      !.prev = publish.result]
    /\ UNCHANGED github
    /\ PubFrame

\* app.py:78  user = github_client.get_user()
PubGetUser ==
    /\ publish.pc = "get_user"
    /\ \E fault \in BOOLEAN :
          publish' = IF fault
                     THEN [PubRaise EXCEPT !.fault = TRUE]
                     ELSE [publish EXCEPT !.pc = "get_repo"]
    /\ UNCHANGED github
    /\ PubFrame

\* app.py:81-85  get_repo: the existing repository is used; any exception
\* (bare except) leads to create_repo.
PubGetRepo ==
    /\ publish.pc = "get_repo"
    /\ \E fault \in BOOLEAN :
          publish' = [publish EXCEPT
                         !.fault = publish.fault \/ fault,
                         !.pc = IF github.exists /\ ~fault
                                THEN "get_contents" ELSE "create_repo"]
    /\ UNCHANGED github
    /\ PubFrame

\* app.py:87-92  create_repo: GitHub refuses a name the account already has.
PubCreateRepo ==
    /\ publish.pc = "create_repo"
    /\ \E fault \in BOOLEAN :
          IF github.exists \/ fault
          THEN /\ publish' = [PubRaise EXCEPT !.fault = publish.fault \/ fault]
               /\ UNCHANGED github
          ELSE /\ github' = [github EXCEPT !.exists = TRUE,
                                           !.created = github.created + 1]
               /\ publish' = [publish EXCEPT !.pc = "get_contents"]
    /\ PubFrame

\* app.py:141  repo.get_contents("index.html"): decides between updating the
\* three files and creating them (bare except at app.py:146).
PubGetContents ==
    /\ publish.pc = "get_contents"
    /\ \E fault \in BOOLEAN :
          LET missing == Files[1] \notin DOMAIN github.files
          IN  publish' = [publish EXCEPT
                             !.fault = publish.fault \/ (fault /\ ~missing),
                             !.i = 1,
                             !.pc = IF missing \/ fault
                                    THEN "create" ELSE "update"]
    /\ UNCHANGED github
    /\ PubFrame

\* app.py:143-145  repo.update_file(path, ..., repo.get_contents(path).sha)
\* for the i-th file.  get_contents raises for a file the repository lacks,
\* update_file may raise; the bare except at app.py:146 turns either into
\* the creation of the three files.
PubUpdateFile ==
    /\ publish.pc = "update"
    /\ \E fault \in BOOLEAN :
          LET path == Files[publish.i]
              missing == path \notin DOMAIN github.files
          IN  IF missing \/ fault
              THEN /\ publish' = [publish EXCEPT
                         !.fault = publish.fault \/ (fault /\ ~missing),
                         !.write_raised = publish.write_raised \/ ~missing,
                         !.pc = "create",
                         !.i = 1]
                   /\ UNCHANGED github
              ELSE /\ github' = Commit(github, path, Content(path, publish.call))
                   /\ publish' = IF publish.i < Len(Files)
                                 THEN [publish EXCEPT !.i = publish.i + 1]
                                 ELSE [publish EXCEPT !.pc = "pages", !.i = 0]
    /\ PubFrame

\* app.py:148-150  repo.create_file(path, ..., content) for the i-th file.
\* GitHub refuses to create a file that is there; the except clause of
\* app.py:153-154 prints the error and the call goes on.
PubCreateFile ==
    /\ publish.pc = "create"
    /\ \E fault \in BOOLEAN :
          LET path == Files[publish.i]
              there == path \in DOMAIN github.files
          IN  IF there \/ fault
              THEN /\ publish' = [publish EXCEPT
                         !.fault = publish.fault \/ (fault /\ ~there),
                         !.write_raised = TRUE,
                         !.pc = "pages",
                         !.i = 0]
                   /\ UNCHANGED github
              ELSE /\ github' = Commit(github, path, Content(path, publish.call))
                   /\ publish' = IF publish.i < Len(Files)
                                 THEN [publish EXCEPT !.i = publish.i + 1]
                                 ELSE [publish EXCEPT !.pc = "pages", !.i = 0]
    /\ PubFrame

\* app.py:157-165  create_pages_site: an exception (Pages enabled already,
\* no branch yet, or any other) is printed and the call goes on.
PubPages ==
    /\ publish.pc = "pages"
    /\ \E fault \in BOOLEAN :
          LET refused == github.pages \/ github.commits = 0
          IN  /\ github' = [github EXCEPT
                               !.pages = github.pages \/ (~fault /\ ~refused)]
              /\ publish' = [publish EXCEPT
                               !.fault = publish.fault \/ (fault /\ ~refused),
                               !.pc = "commits"]
    /\ PubFrame

\* app.py:167-175  the result is built; repo.get_commits()[0] raises in a
\* repository without a commit, and the call raises "Repository creation
\* failed".  The head commit is named by the number of commits.
PubReturn ==
    /\ publish.pc = "commits"
    /\ \E fault \in BOOLEAN :
          LET empty == github.commits = 0
          IN  publish' =
                 IF empty \/ fault
                 THEN [PubRaise EXCEPT !.fault = publish.fault \/ (fault /\ ~empty)]
                 ELSE [publish EXCEPT
                          !.pc = "returned",
                          !.result = RepoData(RepoName, github.commits)]
    /\ UNCHANGED github
    /\ PubFrame

NextPublish ==
    \/ PubCall
    \/ PubGetUser
    \/ PubGetRepo
    \/ PubCreateRepo
    \/ PubGetContents
    \/ PubUpdateFile
    \/ PubCreateFile
    \/ PubPages
    \/ PubReturn

SpecPublish == InitPublish /\ [][NextPublish]_vars

---------------------------------------------------------------------------
(* generate_code_with_llm: the clean-up of the model's response, on its own.

   A text is a sequence of tokens: Fence is the mark of three backquotes,
   "html" the word html, "\n" a whitespace character and "x" any other
   piece of text, so that <<Fence, "html">> is the Python string of the
   three backquotes followed by html. *)

Fence == "fence"

Tokens == {Fence, "html", "\n", "x"}

Texts == UNION {[1..n -> Tokens] : n \in 0..MaxLen}

RECURSIVE LStrip(_)
LStrip(s) == IF s # <<>> /\ Head(s) = "\n" THEN LStrip(Tail(s)) ELSE s

RECURSIVE RStrip(_)
RStrip(s) ==
    IF s # <<>> /\ s[Len(s)] = "\n" THEN RStrip(SubSeq(s, 1, Len(s) - 1)) ELSE s

\* str.strip()
Strip(s) == RStrip(LStrip(s))

\* str.startswith(prefix)
StartsWith(s, prefix) ==
    Len(s) >= Len(prefix) /\ SubSeq(s, 1, Len(prefix)) = prefix

\* Where sep occurs in s.
Occurrences(s, sep) ==
    {i \in 1..(Len(s) - Len(sep) + 1) : SubSeq(s, i, i + Len(sep) - 1) = sep}

\* str.split(sep): the list of the parts of s between the occurrences of
\* sep, from the left.
RECURSIVE Split(_, _)
Split(s, sep) ==
    LET hits == Occurrences(s, sep)
    IN  IF hits = {}
        THEN <<s>>
        ELSE LET i == CHOOSE h \in hits : \A g \in hits : h <= g
             IN  <<SubSeq(s, 1, i - 1)>>
                 \o Split(SubSeq(s, i + Len(sep), Len(s)), sep)

\* app.py:63-71.  The part [1] of a Python list is the second, [0] the first.
CleanUp(text) ==
    LET code == Strip(text)
    IN  IF StartsWith(code, <<Fence, "html">>)
        THEN Strip(Split(Split(code, <<Fence, "html">>)[2], <<Fence>>)[1])
        ELSE IF StartsWith(code, <<Fence>>)
        THEN Strip(Split(Split(code, <<Fence>>)[2], <<Fence>>)[1])
        ELSE code

InitFence ==
    /\ processed_tasks = [k \in {} |-> None]
    /\ req = [r \in Subs |-> NoReq]
    /\ pipe = [r \in Subs |-> NoPipe]
    /\ client = NoClient
    /\ github = NoGithub
    /\ publish = NoPublish
    /\ llm \in {[NoLlm EXCEPT !.text = t] : t \in Texts}

\* model.generate_content(prompt) has answered llm.text; the function
\* returns the cleaned code.
GenerateCode ==
    /\ ~llm.done
    /\ llm' = [llm EXCEPT !.code = CleanUp(llm.text), !.done = TRUE]
    /\ UNCHANGED <<processed_tasks, req, pipe, client, github, publish>>

NextFence == GenerateCode

SpecFence == InitFence /\ [][NextFence]_vars

---------------------------------------------------------------------------
(* Vocabulary of the properties *)

\* The pipeline thread of submission p has been started.
Started(p) == pipe[p].pc # "none"

\* The pipeline thread of submission p has ended, by returning or by an
\* exception nothing caught.
Ended(p) == pipe[p].pc \in {"done", "crashed"}

\* The registry key the pipeline of submission p was started for.
PipeTask(p) == Get(pipe[p].task_data, "task")

Terminal == {"completed", "failed"}

\* Submission r takes a step of its handler.
HandlerStep(r) == req'[r] # req[r]

\* The step leaves the registry and every pipeline as they are: nothing is
\* written, no thread is started, no generator, publisher or delivery call
\* is made.
NoEffect == UNCHANGED <<processed_tasks, pipe>>

---------------------------------------------------------------------------
(* C1 *)

\* C1: submissions that found the same task id absent from the registry
\* start at most one pipeline between them: the membership test and the
\* write of 'processing' act as one atomic check-and-set.
C1_OnePipelinePerUnseenTask ==
    \A r1, r2 \in Subs :
        ( /\ r1 # r2
          /\ req[r1].found = "absent" /\ req[r2].found = "absent"
          /\ Started(r1) /\ Started(r2) )
        => PipeTask(r1) # PipeTask(r2)

---------------------------------------------------------------------------
(* C2 *)

\* C2: terminal states are absorbing: once an entry is 'completed' or
\* 'failed' no step changes it, and no step starts a pipeline for its key.
C2_TerminalAbsorbing ==
    [][ \A k \in DOMAIN processed_tasks :
            processed_tasks[k].status \in Terminal
            => /\ processed_tasks'[k] = processed_tasks[k]
               /\ \A r \in Subs :
                     (~Started(r) /\ TaskOf(r) = k) => pipe'[r].pc = "none"
      ]_vars

---------------------------------------------------------------------------
(* C3 *)

\* C3: a valid-secret submission that finds its task 'completed' returns
\* 200 'success' with exactly the stored repo_url and pages_url, leaves the
\* registry unchanged and calls neither generator, publisher nor delivery.
C3_CompletedResubmission ==
    [][ \A r \in Subs :
            ( /\ req[r].pc = "check"
              /\ HandlerStep(r)
              /\ Lookup(processed_tasks, TaskOf(r)) = "completed" )
            => /\ req'[r].pc = "done"
               /\ req'[r].resp.code = 200
               /\ req'[r].resp.status = "success"
               /\ req'[r].resp.repo_url = processed_tasks[TaskOf(r)].repo_url
               /\ req'[r].resp.pages_url = processed_tasks[TaskOf(r)].pages_url
               /\ NoEffect
      ]_vars

\* A resubmission of a completed task has been answered with its URLs.
C3_Witness ==
    \E r \in Subs :
        /\ req[r].pc = "done"
        /\ req[r].found = "completed"
        /\ req[r].resp.repo_url = RepoUrl(TaskOf(r))
        /\ ~Started(r)

---------------------------------------------------------------------------
(* C4 *)

\* C4: a valid-secret submission that finds its task 'processing' is
\* answered 'processing', starts no pipeline and leaves the entry unchanged.
C4_ProcessingResubmission ==
    [][ \A r \in Subs :
            ( /\ req[r].pc = "check"
              /\ HandlerStep(r)
              /\ Lookup(processed_tasks, TaskOf(r)) = "processing" )
            => /\ req'[r].pc = "done"
               /\ req'[r].resp.code = 200
               /\ req'[r].resp.status = "processing"
               /\ processed_tasks'[TaskOf(r)] = processed_tasks[TaskOf(r)]
               /\ NoEffect
      ]_vars

\* A submission of a task in flight has been answered 'processing'.
C4_Witness ==
    \E r \in Subs :
        /\ req[r].pc = "done"
        /\ req[r].found = "processing"
        /\ req[r].resp.status = "processing"
        /\ ~Started(r)

---------------------------------------------------------------------------
(* C5 *)

\* Submission r found, or is about to find, its task id absent.
FindsAbsent(r) ==
    IF req[r].pc = "check"
    THEN Lookup(processed_tasks, TaskOf(r)) = "absent"
    ELSE req[r].found = "absent"

\* C5: a valid-secret submission of a task id absent from the registry
\* writes 'processing' for it before it starts the pipeline thread, starts
\* exactly one pipeline thread (its own, once), and then answers 200
\* 'success' with the task id, whatever the pipeline has done meanwhile.
C5_AcceptNew ==
    /\ [] \A r \in Subs :
            req[r].found = "absent"
            => (Started(r) <=> req[r].pc \in {"respond", "done"})
    /\ [][ \A r \in Subs :
            (HandlerStep(r) /\ FindsAbsent(r))
            => /\ req[r].pc = "check"
                  => /\ req'[r].pc = "mark"
                     /\ NoEffect
               /\ req[r].pc = "mark"
                  => /\ req'[r].pc = "start"
                     /\ TaskOf(r) \in DOMAIN processed_tasks'
                     /\ processed_tasks'[TaskOf(r)].status = "processing"
                     /\ UNCHANGED pipe
               /\ req[r].pc = "start"
                  => /\ req'[r].pc = "respond"
                     /\ TaskOf(r) \in DOMAIN processed_tasks
                     /\ ~Started(r) /\ pipe'[r].pc = "extract"
                     /\ pipe'[r].task_data = req[r].data
                     /\ \A q \in Subs \ {r} : pipe'[q] = pipe[q]
                     /\ UNCHANGED processed_tasks
               /\ req[r].pc = "respond"
                  => /\ req'[r].pc = "done"
                     /\ req'[r].resp.code = 200
                     /\ req'[r].resp.status = "success"
                     /\ req'[r].resp.task = TaskOf(r)
                     /\ NoEffect
         ]_vars

\* The acceptance has been answered while the task is still 'processing'
\* and its pipeline still running.
C5_Witness ==
    \E r \in Subs :
        /\ req[r].pc = "done"
        /\ req[r].found = "absent"
        /\ req[r].resp.task = "t1"
        /\ processed_tasks["t1"].status = "processing"
        /\ pipe[r].pc \in {"extract", "publish", "deliver"}

---------------------------------------------------------------------------
(* C6 *)

\* The body of submission r was a JSON object (every payload has a field).
IsObject(r) == DOMAIN req[r].data # {}

\* Submission r carried a secret other than the configured one.
WrongSecret(r) ==
    /\ req[r].pc # "new"
    /\ IsObject(r)
    /\ Get(req[r].data, "secret") # SECRET

\* C6: a submission whose secret differs from SECRET changes neither the
\* registry nor any pipeline, starts none, and is answered 401 'Invalid
\* secret', whatever its other fields and whatever the state of its task.
C6_InvalidSecret ==
    /\ [] \A r \in Subs :
            WrongSecret(r)
            => /\ req[r].pc = "done"
               /\ req[r].resp = InvalidSecretResp
               /\ req[r].found = None
               /\ ~Started(r)
    /\ [][ \A r \in Subs :
            (HandlerStep(r) /\ WrongSecret(r)')
            => /\ req[r].pc = "new"
               /\ NoEffect
         ]_vars

\* A wrong-secret submission of a task that is already completed, lacking a
\* field as well, has been rejected.
C6_Witness ==
    \E r \in Subs :
        /\ WrongSecret(r)
        /\ req[r].resp.code = 401
        /\ "brief" \notin DOMAIN req[r].data
        /\ TaskOf(r) \in DOMAIN processed_tasks
        /\ processed_tasks[TaskOf(r)].status = "completed"

---------------------------------------------------------------------------
(* C7 *)

GenerationFailed(p) == pipe[p].e = "generation failed"

PublishFailed(p) == pipe[p].e = "Repository creation failed"

\* C7: an exception of the generator or of the publisher short-circuits the
\* rest of the pipeline: after a generation failure the publisher is never
\* called, after either failure no callback POST is sent and the execution
\* never writes 'completed'; its one write is 'failed' with the message.
C7_ShortCircuit ==
    /\ [] \A p \in Subs :
            /\ GenerationFailed(p)
               => /\ pipe[p].pub = 0
                  /\ pipe[p].repo_data = NoRepo
            /\ (GenerationFailed(p) \/ PublishFailed(p))
               => /\ pipe[p].dl = NoDelivery
                  /\ pipe[p].pc \in {"except", "done"}
                  /\ pipe[p].wrote # "completed"
                  /\ pipe[p].pc = "done" => pipe[p].wrote = "failed"
    /\ [][ \A p \in Subs :
            (pipe[p].pc = "except" /\ pipe'[p] # pipe[p])
            => /\ pipe'[p].pc = "done"
               /\ processed_tasks' =
                     Put(processed_tasks, pipe[p].task_id, FailedEntry(pipe[p].e))
         ]_vars

\* One pipeline ended on a generation failure and one on a publish failure,
\* each recorded as 'failed' with its message.
C7_Witness ==
    \E p, q \in Subs :
        /\ GenerationFailed(p) /\ pipe[p].pc = "done"
        /\ PublishFailed(q) /\ pipe[q].pc = "done"
        /\ pipe[p].task_id # pipe[q].task_id
        /\ processed_tasks[pipe[p].task_id] = FailedEntry("generation failed")
        /\ processed_tasks[pipe[q].task_id] = FailedEntry("Repository creation failed")

---------------------------------------------------------------------------
(* C8 *)

\* C8: every pipeline execution that begins writes a terminal status for
\* its task: a pipeline thread that has ended has written 'completed' or
\* 'failed', also when the payload lacks 'task' or another field.
C8_EndedPipelineWroteTerminal ==
    \A p \in Subs : Ended(p) => pipe[p].wrote \in Terminal

---------------------------------------------------------------------------
(* C9 *)

AllFailed(outcomes) == \A i \in 1..Len(outcomes) : outcomes[i] # "200"

\* C9: against an endpoint whose every answer is a non-200 status or a
\* transport error, in any mix, the delivery client makes exactly 4 POST
\* attempts and returns False: never a 5th, and it does not return before
\* the 4th.
C9_FourAttemptsThenFalse ==
    /\ client.dl.posts = Len(client.outcomes)
    /\ client.dl.posts <= 4
    /\ AllFailed(client.outcomes)
       => /\ client.dl.ret # "True"
          /\ client.dl.ret = "False" <=> client.dl.posts = 4

\* Four failed attempts of mixed kinds, then False.
C9_Witness ==
    /\ client.outcomes = <<"500", "error", "404", "error">>
    /\ client.dl.ret = "False"
    /\ client.dl.posts = 4

---------------------------------------------------------------------------
(* C10 *)

\* C10: the sleep between failed attempt i and attempt i+1 (i from 0) is
\* 2^i: four failed attempts sleep exactly 1, 2, 4, with no sleep before the
\* first attempt and none after the last.
C10_Sleeps124 ==
    (AllFailed(client.outcomes) /\ client.dl.ret = "False")
    => client.dl.sleeps = <<1, 2, 4>>

---------------------------------------------------------------------------
(* C11 *)

\* C11: the delivery client stops at the first 200: it returns True and
\* posts no more; a callback that answers 200 to the first attempt gets
\* exactly one POST from that pipeline, and every POST carries the task id
\* and nonce of the submission and the repo_url, pages_url and commit_sha
\* the publisher returned.
C11_StopsAtFirst200 ==
    /\ [] \A p \in Subs :
            /\ pipe[p].dl.got200
               => /\ pipe[p].dl.ret = "True"
                  /\ pipe[p].pc \in {"mark", "done"}
            /\ (pipe[p].dl.got200 /\ pipe[p].dl.attempt = 0)
               => pipe[p].dl.posts = 1
            /\ pipe[p].dl.posts > 0
               => /\ pipe[p].gen = 1 /\ pipe[p].pub = 1
                  /\ pipe[p].sent.task = req[p].data.task
                  /\ pipe[p].sent.nonce = req[p].data.nonce
                  /\ pipe[p].sent.repo_url = pipe[p].repo_data.repo_url
                  /\ pipe[p].sent.pages_url = pipe[p].repo_data.pages_url
                  /\ pipe[p].sent.commit_sha = pipe[p].repo_data.commit_sha
                  /\ pipe[p].repo_data # NoRepo
    /\ [][ \A p \in Subs :
            pipe[p].dl.got200
            => /\ pipe'[p].dl = pipe[p].dl
               /\ pipe'[p].sent = pipe[p].sent
         ]_vars

\* A task completed after one POST, answered 200.
C11_Witness ==
    \E p \in Subs :
        /\ pipe[p].pc = "done"
        /\ pipe[p].wrote = "completed"
        /\ pipe[p].dl.got200
        /\ pipe[p].dl.posts = 1
        /\ pipe[p].sent.task = "t1"
        /\ pipe[p].sent.nonce = Nonce(p)
        /\ pipe[p].sent.repo_url = RepoUrl("t1")

---------------------------------------------------------------------------
(* C12 *)

\* C12: the delivery outcome does not change the terminal state: once
\* generation and publishing have succeeded the pipeline's write is
\* 'completed' with the publisher's repo_url and pages_url, whether
\* submit_to_evaluation returned True or False.
C12_DeliveryDoesNotDecide ==
    /\ [] \A p \in Subs :
            (pipe[p].pc = "done" /\ pipe[p].pub = 1 /\ pipe[p].e = None)
            => /\ pipe[p].dl.ret \in {"True", "False"}
               /\ pipe[p].wrote = "completed"
    /\ [][ \A p \in Subs :
            (pipe[p].pc = "mark" /\ pipe'[p] # pipe[p])
            => /\ pipe'[p].pc = "done"
               /\ processed_tasks' =
                     Put(processed_tasks, pipe[p].task_id,
                         [status |-> "completed",
                          repo_url |-> pipe[p].repo_data.repo_url,
                          pages_url |-> pipe[p].repo_data.pages_url])
         ]_vars

\* Two tasks completed, one delivered and one whose four attempts failed.
C12_Witness ==
    \E p, q \in Subs :
        /\ pipe[p].pc = "done" /\ pipe[p].dl.ret = "True"
        /\ pipe[q].pc = "done" /\ pipe[q].dl.ret = "False" /\ pipe[q].dl.posts = 4
        /\ pipe[p].task_id # pipe[q].task_id
        /\ processed_tasks[pipe[p].task_id].status = "completed"
        /\ processed_tasks[pipe[q].task_id].status = "completed"
        /\ processed_tasks[pipe[q].task_id].pages_url = PagesUrl(pipe[q].task_id)

---------------------------------------------------------------------------
(* C13 *)

\* C13: a pipeline runs generate, publish, deliver, mark in that order, and
\* the registry status of its task stays 'processing' until its delivery
\* client has returned after at least one POST: nobody sees 'completed'
\* while delivery attempts of the execution are pending.
C13_ProcessingUntilDelivered ==
    \A p \in Subs :
        /\ pipe[p].pub > 0 => pipe[p].gen > 0
        /\ pipe[p].dl.posts > 0 => pipe[p].pub > 0
        /\ pipe[p].wrote = "completed"
           => (pipe[p].dl.ret # None /\ pipe[p].dl.posts >= 1)
        /\ pipe[p].pc \in {"extract", "publish", "deliver"}
           => processed_tasks[PipeTask(p)].status = "processing"

---------------------------------------------------------------------------
(* C14 *)

\* C14: a call of create_github_repo in which the creation or the update of
\* index.html, README.md or LICENSE raised does not return a result: it
\* raises (and the pipeline marks the task 'failed' without a callback).
C14_WriteFailureRaises ==
    publish.pc = "returned" => ~publish.write_raised

---------------------------------------------------------------------------
(* C15 *)

\* C15: when create_github_repo has returned twice in a row for the same
\* repository name, no second repository was created, the second result has
\* the URLs of the first, and index.html holds the second call's source.
C15_SecondCallOverwrites ==
    (publish.pc = "returned" /\ publish.prev_returned)
    => /\ github.created <= 1
       /\ publish.result.repo_url = publish.prev.repo_url
       /\ publish.result.pages_url = publish.prev.pages_url
       /\ Get(github.files, "index.html") = HtmlCode(publish.call)

---------------------------------------------------------------------------
(* C16 *)

\* C16: whatever the repository held before, a call of create_github_repo
\* that returns a result, no GitHub call of it having failed for a reason
\* of its own, leaves index.html, README.md and LICENSE holding the content
\* of that call.
C16_ThreeFilesWritten ==
    (publish.pc = "returned" /\ ~publish.fault)
    => \A path \in FileSet :
          Get(github.files, path) = Content(path, publish.call)

---------------------------------------------------------------------------
(* C17 *)

---------------------------------------------------------------------------
(* C18 *)

\* The fences of a text, and its first fenced block: what lies between the
\* first fence and the next one, without the word html that follows the
\* opening fence of an html block.
FencesOf(text) == Occurrences(text, <<Fence>>)

HasBlock(text) == Cardinality(FencesOf(text)) >= 2

FirstBlock(text) ==
    LET open == CHOOSE i \in FencesOf(text) : \A j \in FencesOf(text) : i <= j
        close == CHOOSE i \in FencesOf(text) \ {open} :
                    \A j \in FencesOf(text) \ {open} : i <= j
        inner == SubSeq(text, open + 1, close - 1)
    IN  IF inner # <<>> /\ Head(inner) = "html" THEN Tail(inner) ELSE inner

\* C18: for every response text, a text with a fenced block, text before the
\* opening fence or not, is cleaned to the inner content of its first block,
\* and a text without a fence is cleaned to the text trimmed.
C18_FirstBlockOrTrimmed ==
    llm.done
    => /\ HasBlock(llm.text) => llm.code = Strip(FirstBlock(llm.text))
       /\ FencesOf(llm.text) = {} => llm.code = Strip(llm.text)

---------------------------------------------------------------------------
(* C19 *)

\* C19: a 'completed' entry for a task id was written by a pipeline of that
\* task id whose generator and publisher both returned, and its repo_url
\* and pages_url are the ones that publisher call returned: the URLs of that
\* task, never of another.
C19_CompletedHasItsPipeline ==
    \A k \in DOMAIN processed_tasks :
        processed_tasks[k].status = "completed"
        => /\ \E p \in Subs :
                 /\ PipeTask(p) = k
                 /\ pipe[p].gen = 1 /\ pipe[p].pub = 1 /\ pipe[p].e = None
                 /\ pipe[p].wrote = "completed"
                 /\ processed_tasks[k].repo_url = pipe[p].repo_data.repo_url
                 /\ processed_tasks[k].pages_url = pipe[p].repo_data.pages_url
           /\ processed_tasks[k].repo_url = RepoUrl(k)
           /\ processed_tasks[k].pages_url = PagesUrl(k)

\* Two tasks completed, each with its own URLs.
C19_Witness ==
    /\ DOMAIN processed_tasks = {"t1", "t2"}
    /\ processed_tasks["t1"] = CompletedEntry(RepoData("t1", "sha1"))
    /\ processed_tasks["t2"] = CompletedEntry(RepoData("t2", "sha1"))

---------------------------------------------------------------------------
(* C20 *)

\* C20: pipelines of different tasks are independent: the entry of a task
\* id is written only by a handler that submitted that task id or by a
\* pipeline started for it, and a step of one pipeline changes the state of
\* no other pipeline.
C20_OnlyOwnEntry ==
    [][ /\ \A k \in DOMAIN processed_tasks' :
              (k \notin DOMAIN processed_tasks
                  \/ processed_tasks'[k] # processed_tasks[k])
              => \E r \in Subs :
                    \/ HandlerStep(r) /\ req[r].pc = "mark" /\ TaskOf(r) = k
                    \/ /\ pipe'[r] # pipe[r]
                       /\ pipe[r].pc \in {"mark", "except"}
                       /\ PipeTask(r) = k
        /\ \A p \in Subs :
              pipe'[p] # pipe[p]
              => \A q \in Subs \ {p} : pipe'[q] = pipe[q] /\ req'[q] = req[q]
      ]_vars

\* One task failed and another completed, side by side.
C20_Witness ==
    /\ DOMAIN processed_tasks = {"t1", "t2"}
    /\ processed_tasks["t1"].status = "failed"
    /\ processed_tasks["t2"].status = "completed"
    /\ \A p \in Subs : pipe[p].pc = "done"

=============================================================================
